---- MODULE Spec2Model ----
(***************************************************************************)
(* Nebula backend: the metadata store (database registrations, API keys),  *)
(* the request authorizer, the data-plane handlers' use of tenant-store    *)
(* handles, the SQL assembly of the handlers and the per-IP rate limiter.  *)
(*                                                                         *)
(* A request is a sequence of steps; one step runs the handler up to and   *)
(* including its next storage call, so requests interleave exactly at the  *)
(* storage calls, as the goroutines of the server do.                      *)
(***************************************************************************)
EXTENDS Integers, Sequences, FiniteSets, TLC

(***************************************************************************)
(* Bounds of the model.                                                    *)
(***************************************************************************)
MaxDbId == 2        \* registrations ever inserted into the empty store (ids 1..MaxDbId)
MaxDataDbId == 3    \* the same for the populated store, which holds ids 1 and 2
MaxRows == 2         \* records inserted into one table
MaxKeys == 2        \* API keys ever generated

(***************************************************************************)
(* Names are sequences of characters, so that validation reads them.       *)
(***************************************************************************)
Lower == {"a","b","c","d","e","f","g","h","i","j","k","l","m",
          "n","o","p","q","r","s","t","u","v","w","x","y","z"}
Upper == {"A","B","C","D","E","F","G","H","I","J","K","L","M",
          "N","O","P","Q","R","S","T","U","V","W","X","Y","Z"}
Digit == {"0","1","2","3","4","5","6","7","8","9"}

\* nameValidationRegex: ^[a-zA-Z0-9_]+$
nameValidationRegex(name) ==
    /\ Len(name) >= 1
    /\ \A i \in 1..Len(name) : name[i] \in Lower \cup Upper \cup Digit \cup {"_"}

MaxIdentLen == 64

\* an identifier pattern that does not take a digit first: ^[a-zA-Z_][a-zA-Z0-9_]*$
ValidWithoutLeadingDigit(name) ==
    /\ Len(name) \in 1..MaxIdentLen
    /\ name[1] \in Lower \cup Upper \cup {"_"}
    /\ \A i \in 1..Len(name) : name[i] \in Lower \cup Upper \cup Digit \cup {"_"}

IsValidIdentifier(name) ==
    nameValidationRegex(name) /\ Len(name) > 0 /\ Len(name) <= MaxIdentLen

appdb == <<"a","p","p","d","b">>
other == <<"o","t","h","e","r">>
badname == <<"a",";">>

UpperSeq == <<"A","B","C","D","E","F","G","H","I","J","K","L","M",
              "N","O","P","Q","R","S","T","U","V","W","X","Y","Z">>
LowerSeq == <<"a","b","c","d","e","f","g","h","i","j","k","l","m",
              "n","o","p","q","r","s","t","u","v","w","x","y","z">>

\* a comparison that keeps the case of the letters
KeepCase(name) == name

\* strings.ToLower
ToLower(name) ==
    [i \in 1..Len(name) |->
        IF name[i] \in Upper
        THEN LowerSeq[CHOOSE j \in 1..26 : UpperSeq[j] = name[i]]
        ELSE name[i]]

\* strings.ToUpper: the ASCII letters, and the two other letters whose upper
\* case is an ASCII letter (U+0131 dotless i and U+017F long s, written here
\* by name, as is U+00E9 e acute)
ToUpper(name) ==
    [i \in 1..Len(name) |->
        IF name[i] \in Lower
        THEN UpperSeq[CHOOSE j \in 1..26 : LowerSeq[j] = name[i]]
        ELSE IF name[i] = "i-dotless" THEN "I"
        ELSE IF name[i] = "s-long" THEN "S"
        ELSE name[i]]

\* core.AllowedColumnTypes: every key is mapped to itself
AllowedColumnTypes ==
    {<<"T","E","X","T">>, <<"I","N","T","E","G","E","R">>, <<"R","E","A","L">>,
     <<"B","L","O","B">>, <<"B","O","O","L","E","A","N">>}

\* a lookup of the type as it is written
ValidateTypeAsWritten(colType) ==
    IF colType \in AllowedColumnTypes THEN [type |-> colType, ok |-> TRUE]
    ELSE [type |-> << >>, ok |-> FALSE]

\* core.NormalizeAndValidateType: the map lookup of the upper-cased type; a
\* missing key yields the zero value "" and false
NormalizeAndValidateType(colType) ==
    IF ToUpper(colType) \in AllowedColumnTypes
    THEN [type |-> ToUpper(colType), ok |-> TRUE]
    ELSE [type |-> << >>, ok |-> FALSE]

\* strings.SplitN(s, sep, 2) for a separator of one character
SplitN(s, sep) ==
    IF \E i \in 1..Len(s) : s[i] = sep
    THEN LET i == CHOOSE i \in 1..Len(s) :
                      s[i] = sep /\ \A j \in 1..(i - 1) : s[j] # sep
         IN <<SubSeq(s, 1, i - 1), SubSeq(s, i + 1, Len(s))>>
    ELSE <<s>>

\* Authorization headers; "*" stands where the credentials are (the token or
\* the key itself is carried apart from the header text)
NoHeader == << >>
BearerHeader == <<"B","e","a","r","e","r"," ","*">>
ApiKeyHeader == <<"A","p","i","K","e","y"," ","*">>
AcceptedHeaders ==
    {BearerHeader, ApiKeyHeader,
     <<"B","E","A","R","E","R"," ","*">>, <<"b","e","a","r","e","r"," ","*">>,
     <<"a","p","i","k","e","y"," ","*">>, <<"A","P","I","K","E","Y"," ","*">>}
UnsplitHeaders == {<<"B","e","a","r","e","r">>, <<"*">>, <<"A","p","i","K","e","y","*">>}
OtherSchemeHeaders ==
    {<<"B","a","s","i","c"," ","*">>, <<"T","o","k","e","n"," ","*">>,
     <<"B","e","a","r","e","r","s"," ","*">>, <<" ","*">>,
     <<"B","e","a","r","e","r",":"," ","*">>}
Users == {"u1", "u2"}
Tokens == Users \cup {"bad"}          \* a token is named by the user it was minted for
Reqs == {1, 2}                        \* the requests in flight at once

\* e-mail addresses and passwords of the signup and login bodies
Emails == {<<"a","@","x">>, <<"b","@","x">>, <<"a","x">>}
Passwords == {<<"s","e","c","r","e","t","0","1">>, <<"s","e","c","r","e","t","0","2">>,
              <<"p","w">>}
MinPasswordLen == 8

\* uuid.New().String(): the n-th value drawn, never a value drawn before
Uuid(n) == <<"u1", "u2", "u3", "u4">>[n]

\* auth.HashPassword (bcrypt) and auth.CheckPasswordHash
HashPassword(password) == <<"bcrypt", password>>
CheckPasswordHash(password, hash) == hash = HashPassword(password)

\* auth.GenerateJWT: a token is named by the user it is minted for
GenerateJWT(userId) == userId

\* the users the tokens of the other specifications were minted for
RegisteredUsers ==
    {[id |-> "u1", email |-> <<"a","@","x">>,
      hash |-> HashPassword(<<"s","e","c","r","e","t","0","1">>)],
     [id |-> "u2", email |-> <<"b","@","x">>,
      hash |-> HashPassword(<<"s","e","c","r","e","t","0","2">>)]}

(***************************************************************************)
(* State.                                                                  *)
(***************************************************************************)
VARIABLES
    databases,   \* rows of table databases: [id, owner, name, path]
    nextDbId,    \* sqlite_sequence of databases (AUTOINCREMENT)
    apiKeys,     \* rows of table api_keys: [owner, db, key]
    nextKey,     \* the next value the random source yields (never a value seen before)
    req,         \* the requests in flight: position, context and locals of each
    issued,      \* history: every key ever stored, with its database and that database's owner
    revoked,     \* history: the keys whose database registration was deleted
    users,       \* rows of table users: [id, email, hash]
    nextUser,    \* the number of the next value uuid.New yields
    tenant,      \* the tables of the tenant file of u1's appdb: [name, columns, rows, seq]
    files,       \* the tenant files that exist on disk, by path
    requests,    \* RateLimiter.requests: per IP, the timestamps kept
    mutex,       \* RateLimiter.mutex: the caller holding it, 0 if free
    call,        \* the calls of RateLimiter.Allow in progress
    clock,       \* time.Now(), in ticks
    accepted,    \* history: per IP and tick, the calls Allow accepted
    sqlIn,       \* the handler and the identifiers of a request whose SQL is assembled
    sqlOut,      \* what the handler did with it
    core         \* a call of a function of package core: its input and its result

registryVars == <<databases, nextDbId, apiKeys, nextKey, issued, revoked>>
metaVars == <<registryVars, users, nextUser, tenant, files>>
rlVars == <<requests, mutex, call, clock, accepted>>
sqlVars == <<sqlIn, sqlOut, core>>
vars == <<metaVars, req, rlVars, sqlVars>>

NoName == << >>
NoPath == <<"", NoName>>

IdleReq == [pc |-> "idle", op |-> "none", scheme |-> "none", key |-> 0,
            userId |-> "", dbScope |-> 0, dbName |-> NoName, targetId |-> 0,
            path |-> NoPath, handle |-> "none", err |-> "", status |-> 0,
            rows |-> {}, nilUse |-> FALSE, shown |-> {}, token |-> "",
            header |-> NoHeader, email |-> NoName, password |-> NoName, jwt |-> "",
            table |-> NoName, removed |-> "", body |-> {}]

(***************************************************************************)
(* Routes.                                                                 *)
(***************************************************************************)
ScopedOps == {"ListTables", "DeleteTable"}
RecordOps == {"CreateRecord", "ListRecords", "GetRecord", "UpdateRecord", "DeleteRecord"}
SchemaOps == {"CreateSchema", "GetSchema"}
AccountOps == {"CreateAPIKey", "GetAPIKey"}
\* DELETE /api/v1/account/databases/:db_name/apikey: no route is registered for it
UnroutedOps == {"DeleteAPIKey"}
\* the routes whose path names a database
DbPathOps == ScopedOps \cup RecordOps \cup SchemaOps \cup {"DeleteDatabase"}

(***************************************************************************)
(* Metadata repository.                                                    *)
(***************************************************************************)
\* filepath.Join(MetadataDbDir, userId, dbName + ".db")
FilePathOf(userId, dbName) == <<userId, dbName>>

\* SELECT file_path FROM databases WHERE owner_id = ? AND db_name = ? LIMIT 1
FindDatabasePathAnyOwner(userId, dbName) ==
    {d.path : d \in {x \in databases : x.name = dbName}}

FindDatabasePath(userId, dbName) ==
    {d.path : d \in {x \in databases : x.owner = userId /\ x.name = dbName}}

\* SELECT database_id FROM databases WHERE owner_id = ? AND db_name = ? LIMIT 1
FindDatabaseIDByNameAndUser(userId, dbName) ==
    {d.id : d \in {x \in databases : x.owner = userId /\ x.name = dbName}}

\* UNIQUE (owner_id, db_name), file_path UNIQUE, FOREIGN KEY (owner_id)
NoDatabaseConstraints(userId, dbName, filePath) == userId \in {u.id : u \in users}

DatabaseConstraintsOk(userId, dbName, filePath) ==
    /\ userId \in {u.id : u \in users}
    /\ \A d \in databases : ~(d.owner = userId /\ d.name = dbName)
    /\ \A d \in databases : d.path # filePath

\* database_id INTEGER PRIMARY KEY AUTOINCREMENT: ids of deleted rows are not reused
ReusedDatabaseId ==
    IF databases = {} THEN 1
    ELSE 1 + CHOOSE m \in {d.id : d \in databases} :
                 \A d \in databases : d.id <= m

NextDatabaseId == nextDbId

\* api_database_id INTEGER UNIQUE, key TEXT UNIQUE, both FOREIGN KEYs
KeyConstraintsNoUniqueDb(userId, databaseId, key) ==
    /\ userId \in {u.id : u \in users}
    /\ \E d \in databases : d.id = databaseId
    /\ \A k \in apiKeys : k.key # key

KeyConstraintsOk(userId, databaseId, key) ==
    /\ userId \in {u.id : u \in users}
    /\ \E d \in databases : d.id = databaseId
    /\ \A k \in apiKeys : k.db # databaseId
    /\ \A k \in apiKeys : k.key # key

\* INSERT INTO api_keys (api_owner_id, api_database_id, key): the rows afterwards
StoreAPIKeyReplacing(userId, databaseId, key) ==
    IF userId \in {u.id : u \in users} /\ (\E d \in databases : d.id = databaseId)
    THEN {k \in apiKeys : k.db # databaseId}
             \cup {[owner |-> userId, db |-> databaseId, key |-> key]}
    ELSE apiKeys

StoreAPIKey(userId, databaseId, key) ==
    IF KeyConstraintsOk(userId, databaseId, key)
    THEN apiKeys \cup {[owner |-> userId, db |-> databaseId, key |-> key]}
    ELSE apiKeys

\* SELECT key FROM api_keys WHERE api_database_id = ?  (the last row scanned; "" if none)
FindAPIKeyByDatabaseId(databaseId) ==
    {k.key : k \in {x \in apiKeys : x.db = databaseId}}

\* FOREIGN KEY (api_database_id) REFERENCES databases ON DELETE CASCADE, foreign keys on:
\* the api_keys rows left when the registrations with these ids are deleted
KeysWithoutCascade(ids) == apiKeys

KeysAfterCascade(ids) == {k \in apiKeys : k.db \notin ids}

(***************************************************************************)
(* Error classifier.                                                       *)
(***************************************************************************)
\* ErrorHandler: the status answered for the last error attached to the request
ErrorHandler(kind) ==
    CASE kind \in {"UserNotFound", "DatabaseNotFound", "RecordNotFound", "TableNotFound"} -> 404
      [] kind = "InvalidCredentials" -> 401
      [] kind \in {"EmailExists", "DatabaseExists", "ConstraintViolation"} -> 409
      [] kind \in {"TokenMalformed", "TokenInvalid", "TokenClaimsInvalid",
                   "UnexpectedSigningMethod"} -> 401
      [] kind = "TokenExpired" -> 401
      [] kind = "ValidationErrors" -> 400
      [] kind \in {"ColumnNotFound", "TypeMismatch", "InvalidFilterValue"} -> 400
      [] OTHER -> 500

\* the request ends: `written` is the status the handler wrote itself (0 if it
\* only attached the error and left the answer to ErrorHandler)
Respond(rec, kind, written) ==
    [rec EXCEPT !.pc = "done", !.err = kind, !.path = NoPath, !.rows = {},
                !.status = IF written # 0 THEN written ELSE ErrorHandler(kind)]

\* a step of request r; responses leave the server one at a time (sending a
\* response touches no shared state, so this loses no interleaving of the stores)
Step(r, rec) ==
    /\ rec.pc = "done" => \A q \in Reqs \ {r} : req[q].pc # "done"
    /\ req' = [req EXCEPT ![r] = rec]
    /\ UNCHANGED <<rlVars, sqlVars>>

(***************************************************************************)
(* Request authorizer.                                                     *)
(***************************************************************************)
\* auth.ValidateJWT: the userId claim of a token that verifies, "" otherwise
ValidateJWT(token) == IF token \in Users THEN token ELSE ""

Begin(r, op, n, scheme) ==
    [IdleReq EXCEPT !.op = op, !.dbName = n, !.scheme = scheme]

\* CombinedAuthMiddleware, case "bearer"
CombinedAuthBearer(r, h, token, op, n) ==
    /\ req[r].pc = "idle"
    /\ LET uid == ValidateJWT(token)
           rec == [Begin(r, op, n, "bearer") EXCEPT !.token = token, !.header = h]
       IN Step(r, IF uid = "" THEN Respond(rec, "TokenInvalid", 401)
                  ELSE [rec EXCEPT !.pc = "handler", !.userId = uid, !.dbScope = 0])
    /\ UNCHANGED metaVars

\* CombinedAuthMiddleware, case "apikey": the prefix check and
\* SELECT api_database_id, api_owner_id FROM api_keys WHERE key = ?
CombinedAuthApiKey(r, h, pfx, k, op, n) ==
    /\ req[r].pc = "idle"
    /\ LET rec == [Begin(r, op, n, "apikey") EXCEPT !.key = k, !.header = h]
           rows == {x \in apiKeys : x.key = k}
       IN IF ~pfx \/ rows = {}
          THEN Step(r, Respond(rec, "TokenMalformed", 401))
          ELSE \E row \in rows :
                 Step(r, [rec EXCEPT !.pc = "auth2", !.userId = row.owner,
                                     !.dbScope = row.db])
    /\ UNCHANGED metaVars

\* CombinedAuthMiddleware, case "apikey", when row.Scan returns an error other
\* than sql.ErrNoRows (the store cannot be opened or read): the middleware
\* calls customLog.Fatalf and then writes 401.  Package logger is not among
\* the sources: a Fatalf in the manner of log.Fatalf ends the process with
\* os.Exit(1), and with it every request in flight; one that returns leaves
\* the 401 to be written.
CombinedAuthApiKeyScanError(r, k, op, n) ==
    /\ req[r].pc = "idle"
    /\ LET rec == [Begin(r, op, n, "apikey") EXCEPT !.key = k, !.header = ApiKeyHeader]
       IN \/ /\ req' = [q \in Reqs |-> [IdleReq EXCEPT !.pc = "exited"]]
             /\ UNCHANGED <<rlVars, sqlVars>>
          \/ Step(r, Respond(rec, "", 401))
    /\ UNCHANGED metaVars

\* CombinedAuthMiddleware, case "apikey": FindAPIKeyByDatabaseId and c.Set
CombinedAuthApiKeyFind(r) ==
    /\ req[r].pc = "auth2"
    /\ Step(r, IF FindAPIKeyByDatabaseId(req[r].dbScope) = {}
                THEN Respond([req[r] EXCEPT !.userId = "", !.dbScope = 0],
                             "Unauthorized", 401)
                ELSE [req[r] EXCEPT !.pc = "handler"])
    /\ UNCHANGED metaVars

\* AuthMiddleware (account routes): Bearer only
AuthMiddleware(r, token, op, n) ==
    /\ req[r].pc = "idle"
    /\ LET uid == ValidateJWT(token)
           rec == [Begin(r, op, n, "bearer") EXCEPT !.token = token,
                                                   !.header = BearerHeader]
       IN Step(r, IF uid = "" THEN Respond(rec, "TokenInvalid", 401)
                  ELSE [rec EXCEPT !.pc = "handler", !.userId = uid])
    /\ UNCHANGED metaVars

\* CombinedAuthMiddleware: the Authorization header of a request of traffic t
\* is read and split, and the lower-cased scheme selects the case
CombinedAuthMiddleware(r, h, t, op, n) ==
    /\ req[r].pc = "idle"
    /\ LET rec == [Begin(r, op, n, "none") EXCEPT !.header = h]
           parts == SplitN(h, " ")
       IN IF h = NoHeader
          THEN Step(r, Respond(rec, "Unauthorized", 401)) /\ UNCHANGED metaVars
          ELSE IF Len(parts) # 2
          THEN Step(r, Respond(rec, "TokenMalformed", 401)) /\ UNCHANGED metaVars
          ELSE LET scheme == ToLower(parts[1])
               IN CASE scheme = <<"a","p","i","k","e","y">> ->
                         /\ op \in t.keyOps
                         /\ \E pfx \in BOOLEAN, k \in t.keys :
                               CombinedAuthApiKey(r, h, pfx, k, op, n)
                    [] scheme = <<"b","e","a","r","e","r">> ->
                         /\ op \in t.ops
                         /\ \E tok \in t.tokens : CombinedAuthBearer(r, h, tok, op, n)
                    [] OTHER ->
                         \* authErr is attached and ErrorHandler answers
                         Step(r, Respond(rec, "TokenMalformed", 0)) /\ UNCHANGED metaVars

\* a request for which the router has no route: gin answers 404 after the
\* global middleware; no authorizer and no handler runs
NoRoute(r, token, op, n) ==
    /\ req[r].pc = "idle"
    /\ Step(r, [Begin(r, op, n, "bearer") EXCEPT !.token = token, !.header = BearerHeader,
                                                 !.pc = "done", !.status = 404])
    /\ UNCHANGED metaVars

(***************************************************************************)
(* Handlers.  Each action is one handler step, up to its next storage call.*)
(***************************************************************************)


\* checkScopeAndGetUserDB with the scope compared only after the file was
\* opened (and closed again on the refusal)
CheckScopeAfterOpen(r) ==
    /\ req[r].pc = "handler" /\ req[r].op \in ScopedOps
    /\ LET me == req[r]
           ids == FindDatabaseIDByNameAndUser(me.userId, me.dbName)
       IN IF ~IsValidIdentifier(me.dbName) THEN Step(r, Respond(me, "BadRequest", 0))
          ELSE IF ids = {} THEN Step(r, Respond(me, "DatabaseNotFound", 0))
          ELSE \E id \in ids :
                 IF me.dbScope # 0 /\ me.dbScope # id
                 THEN Step(r, Respond([me EXCEPT !.targetId = id, !.handle = "closed"],
                                      "Forbidden", 0))
                 ELSE Step(r, [me EXCEPT !.targetId = id, !.pc = "findPath"])
    /\ UNCHANGED metaVars

\* TableHandler.checkScopeAndGetUserDB, to the scope check: the errors are only
\* attached (c.Error), so ErrorHandler answers
CheckScope(r) ==
    /\ req[r].pc = "handler" /\ req[r].op \in ScopedOps
    /\ LET me == req[r]
           ids == FindDatabaseIDByNameAndUser(me.userId, me.dbName)
       IN IF ~IsValidIdentifier(me.dbName) THEN Step(r, Respond(me, "BadRequest", 0))
          ELSE IF ids = {} THEN Step(r, Respond(me, "DatabaseNotFound", 0))
          ELSE \E id \in ids :
                 IF me.dbScope # 0 /\ me.dbScope # id
                 THEN Step(r, Respond([me EXCEPT !.targetId = id], "Forbidden", 0))
                 ELSE Step(r, [me EXCEPT !.targetId = id, !.pc = "findPath"])
    /\ UNCHANGED metaVars

\* TableHandler.checkScopeAndGetUserDB, FindDatabasePath
ScopedFindPath(r) ==
    /\ req[r].pc = "findPath"
    /\ LET me == req[r]
           paths == FindDatabasePath(me.userId, me.dbName)
       IN IF paths = {} THEN Step(r, Respond(me, "DatabaseNotFound", 0))
          ELSE \E p \in paths : Step(r, [me EXCEPT !.path = p, !.pc = "open"])
    /\ UNCHANGED metaVars

\* RecordHandler.getUserDBConn, DatabaseHandler.CreateSchema / GetSchema /
\* DeleteDatabase: validation of the path name and FindDatabasePath; no scope check
FindPath(r) ==
    /\ req[r].pc = "handler"
    /\ req[r].op \in RecordOps \cup SchemaOps \cup {"DeleteDatabase"}
    /\ LET me == req[r]
           paths == FindDatabasePath(me.userId, me.dbName)
       IN IF ~IsValidIdentifier(me.dbName) THEN Step(r, Respond(me, "BadRequest", 400))
          ELSE IF paths = {} THEN Step(r, Respond(me, "DatabaseNotFound", 404))
          ELSE \E p \in paths :
                 Step(r, [me EXCEPT !.path = p,
                            !.pc = IF me.op = "DeleteDatabase" THEN "delReg" ELSE "open"])
    /\ UNCHANGED metaVars

\* what the handler answers when ConnectUserDB fails
OpenFailure(me) ==
    IF me.op = "GetSchema"
    THEN \* c.AbortWithError(500, err) with no return: the handler goes on
         [me EXCEPT !.handle = "failed", !.err = "Internal", !.status = 500, !.pc = "exec"]
    ELSE IF me.op \in ScopedOps THEN Respond(me, "Internal", 0)
    ELSE Respond(me, "Internal", 500)

\* storage.ConnectUserDB(dbFilePath): sql.Open and Ping with journal_mode=WAL, which
\* creates the file when it is missing; CreateSchema binds and validates its body first
Open(r) ==
    /\ req[r].pc = "open"
    /\ LET me == req[r]
       IN \/ /\ Step(r, [me EXCEPT !.handle = "open", !.pc = "exec"])
             /\ files' = files \cup {me.path}
          \/ Step(r, OpenFailure(me)) /\ UNCHANGED files
          \/ /\ me.op = "CreateSchema"
             /\ Step(r, Respond(me, "BadRequest", 400))
             /\ UNCHANGED files
    /\ UNCHANGED <<registryVars, users, nextUser, tenant>>

\* the statuses a handler can end with once it holds an open handle
ExecOutcomes(op) ==
    CASE op = "ListTables"   -> {<<"", 200>>, <<"Internal", 500>>}
      [] op = "DeleteTable"  -> {<<"", 204>>, <<"Internal", 500>>}
      [] op = "CreateSchema" -> {<<"", 201>>, <<"Internal", 500>>}
      [] op = "GetSchema"    -> {<<"", 200>>, <<"TableNotFound", 404>>}
      [] op = "CreateRecord" -> {<<"", 201>>, <<"BadRequest", 400>>, <<"TableNotFound", 404>>,
                                 <<"ConstraintViolation", 409>>, <<"Internal", 500>>}
      [] op = "ListRecords"  -> {<<"", 200>>, <<"InvalidFilterValue", 400>>,
                                 <<"TableNotFound", 404>>, <<"Internal", 500>>}
      [] op = "GetRecord"    -> {<<"", 200>>, <<"RecordNotFound", 404>>, <<"Internal", 500>>}
      [] op = "UpdateRecord" -> {<<"", 200>>, <<"BadRequest", 400>>, <<"RecordNotFound", 404>>,
                                 <<"ConstraintViolation", 409>>, <<"Internal", 500>>}
      [] op = "DeleteRecord" -> {<<"", 204>>, <<"RecordNotFound", 404>>, <<"Internal", 500>>}
      [] OTHER -> {}

\* defer userDB.Close(): the handle is released when the handler returns
DeferredClose(h) == IF h = "open" THEN "closed" ELSE h

\* the rest of the handler: the tenant-store calls, the answer, the deferred Close
Exec(r) ==
    /\ req[r].pc = "exec"
    /\ LET me == req[r]
       IN IF me.handle = "open"
          THEN \E o \in ExecOutcomes(me.op) :
                 Step(r, [Respond(me, o[1], o[2]) EXCEPT !.handle = DeferredClose(me.handle)])
          ELSE \* ListUserTableSchema and Close on the nil handle: both panic,
               \* gin's Recovery ends the request (500 is already written)
               Step(r, [me EXCEPT !.pc = "done", !.nilUse = TRUE, !.path = NoPath])
    /\ UNCHANGED metaVars

\* GET /api/v1/health: answers with the userId and the scope of the context
Health(r) ==
    /\ req[r].pc = "handler" /\ req[r].op = "Health"
    /\ Step(r, Respond(req[r], "", 200))
    /\ UNCHANGED metaVars

\* DatabaseHandler.DeleteDatabase, step 2: DeleteDatabaseRegistration
\* (DELETE FROM databases WHERE owner_id = ? AND db_name = ?); ErrDatabaseNotFound
\* is attached to the request and the handler goes on to the file
DeleteRegistration(r) ==
    /\ req[r].pc = "delReg"
    /\ LET me == req[r]
           gone == {d \in databases : d.owner = me.userId /\ d.name = me.dbName}
           ids == {d.id : d \in gone}
       IN /\ databases' = databases \ gone
          /\ apiKeys' = KeysAfterCascade(ids)
          /\ revoked' = revoked \cup {k.key : k \in {x \in apiKeys : x.db \in ids}}
          /\ Step(r, [me EXCEPT !.pc = "rmFile",
                                !.err = IF gone = {} THEN "DatabaseNotFound" ELSE ""])
    /\ UNCHANGED <<nextDbId, nextKey, issued, users, nextUser, tenant, files>>

\* a handler that answers 500 when os.Remove fails
FailOnRemoveError(me, outcome) ==
    IF outcome = "failed" THEN Respond([me EXCEPT !.removed = outcome], "Internal", 500)
    ELSE IF me.err = "" THEN Respond([me EXCEPT !.removed = outcome], "", 204)
    ELSE Respond([me EXCEPT !.removed = outcome], me.err, 0)

\* DatabaseHandler.DeleteDatabase after os.Remove: every outcome is only logged
AfterRemove(me, outcome) ==
    IF me.err = "" THEN Respond([me EXCEPT !.removed = outcome], "", 204)
    ELSE Respond([me EXCEPT !.removed = outcome], me.err, 0)

\* DatabaseHandler.DeleteDatabase, step 3: os.Remove(dbFilePath), best effort, and
\* c.Status(204), which writes nothing: an attached error is still answered by ErrorHandler
RemoveFile(r) ==
    /\ req[r].pc = "rmFile"
    /\ LET me == req[r]
       IN /\ files' = files \ {me.path}
          /\ Step(r, AfterRemove(me, IF me.path \in files THEN "removed" ELSE "absent"))
    /\ UNCHANGED <<registryVars, users, nextUser, tenant>>

\* the same step when os.Remove returns an error other than os.ErrNotExist
\* (the file cannot be removed and stays)
RemoveFileFails(r) ==
    /\ req[r].pc = "rmFile"
    /\ Step(r, AfterRemove(req[r], "failed"))
    /\ UNCHANGED metaVars

\* DatabaseHandler.CreateDatabase with storage.RegisterDatabase
CreateDatabase(r) ==
    /\ req[r].pc = "handler" /\ req[r].op = "CreateDatabase"
    /\ LET me == req[r]
           path == FilePathOf(me.userId, me.dbName)
       IN IF ~IsValidIdentifier(me.dbName)
          THEN Step(r, Respond(me, "BadRequest", 400)) /\ UNCHANGED <<databases, nextDbId>>
          ELSE \/ \* os.MkdirAll fails
                  Step(r, Respond(me, "Internal", 500)) /\ UNCHANGED <<databases, nextDbId>>
               \/ IF DatabaseConstraintsOk(me.userId, me.dbName, path)
                  THEN /\ databases' = databases \cup
                             {[id |-> NextDatabaseId, owner |-> me.userId,
                               name |-> me.dbName, path |-> path]}
                       /\ nextDbId' = nextDbId + 1
                       /\ Step(r, Respond(me, "", 201))
                  ELSE /\ Step(r, Respond(me, "DatabaseExists", 409))
                       /\ UNCHANGED <<databases, nextDbId>>
    /\ UNCHANGED <<apiKeys, nextKey, issued, revoked, users, nextUser, tenant, files>>

\* byte order of the characters of a name
Alphabet == <<"0","1","2","3","4","5","6","7","8","9",";",
              "A","B","C","D","E","F","G","H","I","J","K","L","M",
              "N","O","P","Q","R","S","T","U","V","W","X","Y","Z","_",
              "a","b","c","d","e","f","g","h","i","j","k","l","m",
              "n","o","p","q","r","s","t","u","v","w","x","y","z">>
Code(c) == CHOOSE i \in 1..Len(Alphabet) : Alphabet[i] = c

RECURSIVE NameLeq(_, _)
NameLeq(a, b) ==
    IF a = << >> THEN TRUE
    ELSE IF b = << >> THEN FALSE
    ELSE IF Code(Head(a)) # Code(Head(b)) THEN Code(Head(a)) < Code(Head(b))
    ELSE NameLeq(Tail(a), Tail(b))

\* the next row of SELECT * FROM databases WHERE owner_id = ? ORDER BY db_name
FirstRow(rows) == CHOOSE d \in rows : \A e \in rows : NameLeq(d.name, e.name)

\* DatabaseHandler.ListDatabases, storage.ListUserDatabases: the query
ListQuery(r) ==
    /\ req[r].pc = "handler" /\ req[r].op = "ListDatabases"
    /\ Step(r, [req[r] EXCEPT !.pc = "listOpen",
                              !.rows = {d \in databases : d.owner = req[r].userId}])
    /\ UNCHANGED metaVars

\* storage.ListUserDatabases: rows.Next and ConnectUserDB(singleDb.FilePath);
\* a failed open is logged and the row skipped
ListOpen(r) ==
    /\ req[r].pc = "listOpen"
    /\ LET me == req[r]
       IN IF me.rows = {}
          THEN Step(r, [Respond(me, "", 200) EXCEPT !.targetId = 0])
          ELSE LET d == FirstRow(me.rows)
               IN \/ Step(r, [me EXCEPT !.handle = "open", !.path = d.path,
                                        !.targetId = d.id, !.pc = "listScan"])
                  \/ Step(r, [me EXCEPT !.rows = me.rows \ {d}])
    /\ UNCHANGED metaVars

\* storage.ListUserDatabases: the table count, Close on both branches, and
\* FindAPIKeyByDatabaseId for the row
ListScan(r) ==
    /\ req[r].pc = "listScan"
    /\ LET me == req[r]
       IN Step(r, [me EXCEPT !.handle = "closed", !.pc = "listOpen",
                             !.rows = {d \in me.rows : d.id # me.targetId},
                             !.shown = me.shown \cup FindAPIKeyByDatabaseId(me.targetId)])
    /\ UNCHANGED metaVars

\* DatabaseHandler.CreateAPIKey: validation and FindDatabaseIDByNameAndUser
KeyFindId(r) ==
    /\ req[r].pc = "handler" /\ req[r].op = "CreateAPIKey"
    /\ LET me == req[r]
           ids == FindDatabaseIDByNameAndUser(me.userId, me.dbName)
       IN IF ~IsValidIdentifier(me.dbName) THEN Step(r, Respond(me, "BadRequest", 400))
          ELSE IF ids = {} THEN Step(r, Respond(me, "DatabaseNotFound", 404))
          ELSE \E id \in ids : Step(r, [me EXCEPT !.targetId = id, !.pc = "storeKey"])
    /\ UNCHANGED metaVars

\* DatabaseHandler.CreateAPIKey: storage.StoreAPIKey; every error is answered 409
StoreKey(r) ==
    /\ req[r].pc = "storeKey"
    /\ LET me == req[r]
           rows == StoreAPIKey(me.userId, me.targetId, nextKey)
       IN /\ apiKeys' = rows
          /\ nextKey' = nextKey + 1
          /\ IF rows # apiKeys
             THEN /\ Step(r, [Respond(me, "", 201) EXCEPT !.key = nextKey,
                                                            !.shown = {nextKey}])
                  /\ issued' = issued \cup
                        {[key |-> nextKey, db |-> me.targetId, dbOwner |-> d.owner,
                          dbName |-> d.name] :
                            d \in {x \in databases : x.id = me.targetId}}
             ELSE /\ Step(r, Respond(me, "Conflict", 409))
                  /\ UNCHANGED issued
    /\ UNCHANGED <<databases, nextDbId, revoked, users, nextUser, tenant, files>>

\* DatabaseHandler.GetAPIKey: validation and FindDatabaseIDByNameAndUser
GetAPIKey(r) ==
    /\ req[r].pc = "handler" /\ req[r].op = "GetAPIKey"
    /\ LET me == req[r]
           ids == FindDatabaseIDByNameAndUser(me.userId, me.dbName)
       IN IF ~IsValidIdentifier(me.dbName) THEN Step(r, Respond(me, "BadRequest", 400))
          ELSE IF ids = {} THEN Step(r, Respond(me, "DatabaseNotFound", 404))
          ELSE \E id \in ids : Step(r, [me EXCEPT !.targetId = id, !.pc = "getKey"])
    /\ UNCHANGED metaVars

\* DatabaseHandler.GetAPIKey: FindAPIKeyByDatabaseId and c.JSON(200, {"key": api_key})
GetAPIKeyFind(r) ==
    /\ req[r].pc = "getKey"
    /\ Step(r, [Respond(req[r], "", 200) EXCEPT
                   !.shown = FindAPIKeyByDatabaseId(req[r].targetId)])
    /\ UNCHANGED metaVars

\* the tables of the tenant file that the name t denotes (SQLite compares
\* table names without regard to the case of ASCII letters)
TableNamed(t) == {x \in tenant : ToLower(x.name) = ToLower(t)}

\* CREATE TABLE that replaces a table of the same name
CreateTableReplacing(t, cols) ==
    (tenant \ TableNamed(t)) \cup {[name |-> t, columns |-> cols, rows |-> {}, seq |-> 0]}

\* CREATE TABLE IF NOT EXISTS t (id INTEGER PRIMARY KEY AUTOINCREMENT, cols, created_at)
CreateTableIfNotExists(t, cols) ==
    IF TableNamed(t) # {} THEN tenant
    ELSE tenant \cup {[name |-> t, columns |-> cols, rows |-> {}, seq |-> 0]}

\* DROP TABLE IF EXISTS t
DropTableIfExists(t) == tenant \ TableNamed(t)

\* DatabaseHandler.CreateSchema, from the open handle: storage.CreateTable and 201
CreateTable(r, t, cols) ==
    /\ req[r].pc = "exec" /\ req[r].op = "CreateSchema" /\ req[r].handle = "open"
    /\ tenant' = CreateTableIfNotExists(t, cols)
    /\ Step(r, [Respond(req[r], "", 201) EXCEPT !.table = t,
                                                !.handle = DeferredClose(req[r].handle)])
    /\ UNCHANGED <<registryVars, users, nextUser, files>>

\* TableHandler.DeleteTable, from the open handle: storage.DropTable and
\* c.Status(204)
DropTable(r, t) ==
    /\ req[r].pc = "exec" /\ req[r].op = "DeleteTable" /\ req[r].handle = "open"
    /\ tenant' = DropTableIfExists(t)
    /\ Step(r, [Respond(req[r], "", 204) EXCEPT !.table = t,
                                                !.handle = DeferredClose(req[r].handle)])
    /\ UNCHANGED <<registryVars, users, nextUser, files>>

\* RecordHandler.CreateRecord, from the open handle: the INSERT of one record
\* (the id comes from the table's row of sqlite_sequence)
InsertRecord(r, t) ==
    /\ req[r].pc = "exec" /\ req[r].op = "CreateRecord" /\ req[r].handle = "open"
    /\ \A x \in TableNamed(t) : x.seq < MaxRows
    /\ tenant' = (tenant \ TableNamed(t)) \cup
                    {[x EXCEPT !.rows = x.rows \cup {x.seq + 1}, !.seq = x.seq + 1] :
                        x \in TableNamed(t)}
    /\ Step(r, [(IF TableNamed(t) = {} THEN Respond(req[r], "TableNotFound", 404)
                                       ELSE Respond(req[r], "", 201))
                  EXCEPT !.table = t, !.handle = DeferredClose(req[r].handle)])
    /\ UNCHANGED <<registryVars, users, nextUser, files>>

\* binding:"required,email" / binding:"required,min=8" of SignupRequest
ValidSignup(e, p) ==
    /\ \E i \in 2..(Len(e) - 1) : e[i] = "@"
    /\ Len(p) >= MinPasswordLen

\* the users table without its UNIQUE constraint on email
NoUsersConstraints(e) == TRUE

\* users.email TEXT UNIQUE: an INSERT with this email is accepted
UsersConstraintsOk(e) == \A u \in users : u.email # e

\* AuthHandler.Signup: uuid.New, ShouldBindJSON and auth.HashPassword; a
\* binding failure is only attached, ErrorHandler answers
Signup(r, e, p) ==
    /\ req[r].pc = "idle"
    /\ LET rec == [IdleReq EXCEPT !.op = "Signup", !.email = e, !.password = p]
       IN Step(r, IF ~ValidSignup(e, p) THEN Respond(rec, "ValidationErrors", 0)
                  ELSE [rec EXCEPT !.pc = "createUser"])
    /\ UNCHANGED metaVars

\* AuthHandler.Signup: storage.CreateUser (one INSERT) and the answer
CreateUser(r) ==
    /\ req[r].pc = "createUser"
    /\ LET me == req[r]
       IN IF UsersConstraintsOk(me.email)
          THEN /\ users' = users \cup {[id |-> Uuid(nextUser), email |-> me.email,
                                        hash |-> HashPassword(me.password)]}
               /\ nextUser' = nextUser + 1
               /\ Step(r, [Respond(me, "", 201) EXCEPT !.userId = Uuid(nextUser)])
          ELSE /\ Step(r, Respond(me, "EmailExists", 0))
               /\ UNCHANGED <<users, nextUser>>
    /\ UNCHANGED <<registryVars, tenant, files>>

\* encoding/json of domain.UserMetadata by its field tags (username and
\* createdAt left out): PasswordHash is written under the key "password"
UserJSON(u) == [userId |-> u.id, email |-> u.email, password |-> u.hash]

\* AuthHandler.Login: ShouldBindJSON (both fields required)
Login(r, e, p) ==
    /\ req[r].pc = "idle"
    /\ LET rec == [IdleReq EXCEPT !.op = "Login", !.email = e, !.password = p]
       IN Step(r, IF e = NoName \/ p = NoName THEN Respond(rec, "ValidationErrors", 0)
                  ELSE [rec EXCEPT !.pc = "findUser"])
    /\ UNCHANGED metaVars

\* AuthHandler.Login: storage.FindUserByEmail, auth.CheckPasswordHash,
\* auth.GenerateJWT and the answer; the errors are attached, ErrorHandler answers
FindUserByEmail(r) ==
    /\ req[r].pc = "findUser"
    /\ LET me == req[r]
           found == {u \in users : u.email = me.email}
       IN IF found = {} THEN Step(r, Respond(me, "UserNotFound", 0))
          ELSE \E u \in found :
                 IF ~CheckPasswordHash(me.password, u.hash)
                 THEN Step(r, Respond(me, "InvalidCredentials", 0))
                 ELSE Step(r, [Respond(me, "", 200) EXCEPT !.userId = u.id,
                                                           !.jwt = GenerateJWT(u.id),
                                                           !.body = {UserJSON(u)}])
    /\ UNCHANGED metaVars

\* GET /api/v1/user/:user_id behind CombinedAuthMiddleware, with the Bearer
\* token of a registered user: AuthHandler.FindUser answers with the row that
\* the path names (200), or 404 when FindUserByUserId finds none
FindUser(r, token, id) ==
    /\ req[r].pc = "idle"
    /\ \E u \in users : u.id = token
    /\ LET rec == [IdleReq EXCEPT !.op = "FindUser", !.scheme = "bearer", !.token = token,
                                  !.header = BearerHeader, !.userId = ValidateJWT(token)]
           found == {u \in users : u.id = id}
       IN IF found = {} THEN Step(r, Respond(rec, "", 404))
          ELSE \E u \in found : Step(r, [Respond(rec, "", 200) EXCEPT !.body = {UserJSON(u)}])
    /\ UNCHANGED metaVars

\* the response is sent; the slot serves the next request
Finish(r) ==
    /\ req[r].pc = "done"
    /\ Step(r, IdleReq)
    /\ UNCHANGED metaVars

(***************************************************************************)
(* Rate limiter.  Time is counted in ticks; a call of Allow is the steps   *)
(* Lock, Filter, Decide (with the deferred Unlock) and the middleware's    *)
(* answer.                                                                 *)
(***************************************************************************)
limit == 5          \* NewRateLimiter: limit
window == 2         \* NewRateLimiter: window (time.Minute), in ticks
MaxTime == 2        \* the clock stops at this tick
MaxOther == 2       \* calls of Allow made for the second IP

IPs == {"ip1", "ip2"}
Callers == {1, 2}                     \* the goroutines calling Allow at once
Ticks == 0..MaxTime

IdleCall == [pc |-> "idle", ip |-> "", now |-> 0, n |-> 0, allowed |-> FALSE]

\* rl.mutex.Lock() returns once no caller holds the mutex
NoMutex(c) == TRUE

MutexFree(c) == mutex = 0

\* t.After(windowStart)
After(t, windowStart) == t > windowStart

\* the loop of Allow: the timestamps after windowStart, in order
Filtered(ts, windowStart) == SelectSeq(ts, LAMBDA t : After(t, windowStart))

\* a limit check that lets one more request through
LimitExceededByOne(n) == n > limit

\* len(filteredRequests) >= rl.limit
LimitExceeded(n) == n >= limit

\* the calls from ip accepted at the ticks lo..hi
RECURSIVE AcceptedIn(_, _, _)
AcceptedIn(ip, lo, hi) ==
    IF hi < lo THEN 0
    ELSE (IF hi \in Ticks THEN accepted[ip][hi] ELSE 0) + AcceptedIn(ip, lo, hi - 1)

\* the calls made so far for the second IP
OtherCalls ==
    AcceptedIn("ip2", 0, MaxTime)
        + Cardinality({c \in Callers : call[c].ip = "ip2" /\ call[c].pc \in {"locked", "check"}})

\* RateLimitMiddleware: getIP and the call of Allow, to rl.mutex.Lock()
Lock(c, ip) ==
    /\ call[c].pc = "idle"
    /\ ip = "ip2" => OtherCalls < MaxOther
    /\ MutexFree(c)
    /\ mutex' = c
    /\ call' = [call EXCEPT ![c] = [IdleCall EXCEPT !.pc = "locked", !.ip = ip]]
    /\ UNCHANGED <<requests, clock, accepted, metaVars, req, sqlVars>>

\* Allow: now := time.Now(), the filter loop and rl.requests[ip] = filteredRequests
Filter(c) ==
    /\ call[c].pc = "locked"
    /\ LET ip == call[c].ip
           kept == Filtered(requests[ip], clock - window)
       IN /\ requests' = [requests EXCEPT ![ip] = kept]
          /\ call' = [call EXCEPT ![c].pc = "check", ![c].now = clock, ![c].n = Len(kept)]
    /\ UNCHANGED <<mutex, clock, accepted, metaVars, req, sqlVars>>

\* Allow: the limit check, the append of now, and the deferred rl.mutex.Unlock()
Decide(c) ==
    /\ call[c].pc = "check"
    /\ \A d \in Callers \ {c} : call[d].pc # "returned"   \* answers leave one at a time
    /\ LET ip == call[c].ip
           now == call[c].now
       IN IF LimitExceeded(call[c].n)
          THEN /\ call' = [call EXCEPT ![c].pc = "returned", ![c].allowed = FALSE]
               /\ UNCHANGED <<requests, accepted>>
          ELSE /\ requests' = [requests EXCEPT ![ip] = Append(requests[ip], now)]
               /\ accepted' = [accepted EXCEPT ![ip][now] = accepted[ip][now] + 1]
               /\ call' = [call EXCEPT ![c].pc = "returned", ![c].allowed = TRUE]
    /\ mutex' = 0
    /\ UNCHANGED <<clock, metaVars, req, sqlVars>>

\* RateLimitMiddleware: 429 and c.Abort(), or c.Next()
RateLimitMiddleware(c) ==
    /\ call[c].pc = "returned"
    /\ call' = [call EXCEPT ![c] = IdleCall]
    /\ UNCHANGED <<requests, mutex, clock, accepted, metaVars, req, sqlVars>>

\* time passes
Tick ==
    /\ clock < MaxTime
    /\ clock' = clock + 1
    /\ UNCHANGED <<requests, mutex, call, accepted, metaVars, req, sqlVars>>

\* NewRateLimiter
RLInit ==
    /\ requests = [ip \in IPs |-> << >>]
    /\ mutex = 0
    /\ call = [c \in Callers |-> IdleCall]
    /\ clock = 0
    /\ accepted = [ip \in IPs |-> [t \in Ticks |-> 0]]

(***************************************************************************)
(* SQL assembly.  A request is a handler with the identifiers it carries;  *)
(* the handler either rejects it or runs statements, and the model records *)
(* the identifiers written into the statements' text.                      *)
(***************************************************************************)
MaxBodyKeys == 2    \* identifiers a request carries in its body or query

items == <<"i","t","e","m","s">>
title == <<"t","i","t","l","e">>
Title == <<"T","i","t","l","e">>
idcol == <<"i","d">>
IDcol == <<"I","D">>
ghost == <<"z">>
created_at == <<"c","r","e","a","t","e","d","_","a","t">>
longname == [i \in 1..(MaxIdentLen + 1) |-> "a"]

\* PragmaTableInfo of table items: the column names, lower-cased
columnTypes == {idcol, title, created_at}

KeyPool == {title, Title, idcol, IDcol, ghost, badname, longname}
SortPool == {NoName, title, ghost, badname}
FieldPool == {{}, {title}, {Title, ghost}, {title, badname}}

SqlHandlers == {"CreateRecord", "UpdateRecord", "ListRecords", "GetRecord",
                "DeleteRecord", "CreateSchema", "DeleteTable"}

\* the requests: the path names, the body or filter keys, the sort and fields options
SqlInputs ==
    {[handler |-> h, dbName |-> d, tableName |-> t, keys |-> k,
      sort |-> so, fields |-> f] :
        h \in SqlHandlers, d \in {appdb, badname}, t \in {items, badname, longname},
        k \in {x \in SUBSET KeyPool : Cardinality(x) <= MaxBodyKeys},
        so \in SortPool, f \in FieldPool}

\* the options and keys a handler reads
SqlReads(in) ==
    /\ in.handler # "ListRecords" => in.sort = NoName /\ in.fields = {}
    /\ in.handler \in {"GetRecord", "DeleteRecord", "DeleteTable"} => in.keys = {}

Rejected(names) == [done |-> TRUE, rejected |-> TRUE, interpolated |-> names]
Executed(names) == [done |-> TRUE, rejected |-> FALSE, interpolated |-> names]

\* RecordHandler.getUserDBConn: validation of the two path names
PathNamesValid(in) == IsValidIdentifier(in.dbName) /\ IsValidIdentifier(in.tableName)

\* a loop that skips only the keys failing validation
SkipsOnlyInvalid(keys) == {k \in keys : IsValidIdentifier(k)}

\* the loop over the body of CreateRecord and UpdateRecord: the keys it does not skip
NotSkipped(keys) == {k \in keys : IsValidIdentifier(k) /\ ToLower(k) # idcol}

\* CreateRecord and UpdateRecord: PRAGMA table_info(tableName), the loop over
\* the body, INSERT INTO tableName (columns) / UPDATE tableName SET column = ?
WriteRecord(in) ==
    IF ~PathNamesValid(in) THEN Rejected({})
    ELSE IF in.keys = {} THEN Rejected({in.tableName})
    ELSE IF \E k \in NotSkipped(in.keys) : ToLower(k) \notin columnTypes
         THEN Rejected({in.tableName})
    ELSE IF NotSkipped(in.keys) = {} THEN Rejected({in.tableName})
    ELSE Executed({in.tableName} \cup NotSkipped(in.keys))

\* core.ParseListQueryOptions: sort and fields pass validation
ParseListQueryOptions(in) ==
    /\ in.sort # NoName => IsValidIdentifier(in.sort)
    /\ \A f \in in.fields : IsValidIdentifier(f)

\* storage.ListRecords: PRAGMA table_info(tableName), the schema checks of sort
\* and fields, the filter keys, SELECT fields FROM tableName WHERE key = ? ORDER BY sort
ListRecords(in) ==
    IF in.sort # NoName /\ ToLower(in.sort) \notin columnTypes
    THEN Rejected({in.tableName})
    ELSE IF \E f \in in.fields : ToLower(f) \notin columnTypes
         THEN Rejected({in.tableName})
    ELSE IF \E k \in in.keys : ~IsValidIdentifier(k) \/ ToLower(k) \notin columnTypes
         THEN Rejected({in.tableName})
    ELSE Executed({in.tableName} \cup in.fields \cup in.keys
                      \cup (IF in.sort = NoName THEN {} ELSE {in.sort}))

\* The handler of the list route that passes options to storage.ListRecords
\* (not among the sources, which hold the handler of the revision before):
\* getUserDBConn, ParseListQueryOptions, then storage.ListRecords
ListRecordsWithOptions(in) ==
    IF ~PathNamesValid(in) THEN Rejected({})
    ELSE IF ~ParseListQueryOptions(in) THEN Rejected({})
    ELSE ListRecords(in)

\* GetRecord, DeleteRecord: SELECT * FROM / DELETE FROM tableName WHERE id = ?
RecordById(in) ==
    IF ~PathNamesValid(in) THEN Rejected({}) ELSE Executed({in.tableName})

\* DatabaseHandler.CreateSchema: CREATE TABLE IF NOT EXISTS tableName (columns)
CreateSchema(in) ==
    IF ~IsValidIdentifier(in.dbName) THEN Rejected({})
    ELSE IF in.keys = {} \/ ~IsValidIdentifier(in.tableName) THEN Rejected({})
    ELSE IF \E k \in in.keys : ~IsValidIdentifier(k) \/ ToLower(k) = idcol
         THEN Rejected({})
    ELSE IF \E k1 \in in.keys, k2 \in in.keys : k1 # k2 /\ ToLower(k1) = ToLower(k2)
         THEN Rejected({})
    ELSE Executed({in.tableName} \cup in.keys)

\* TableHandler.DeleteTable with storage.DropTable: DROP TABLE IF EXISTS tableName
DeleteTable(in) ==
    IF ~IsValidIdentifier(in.tableName) \/ ~IsValidIdentifier(in.dbName)
    THEN Rejected({})
    ELSE Executed({in.tableName})

NotRun == [done |-> FALSE, rejected |-> FALSE, interpolated |-> {}]
NoSql == [handler |-> "none", dbName |-> NoName, tableName |-> NoName, keys |-> {},
          sort |-> NoName, fields |-> {}]

\* no SQL is being assembled
SqlIdle == sqlIn = NoSql /\ sqlOut = NotRun /\ core = [fn |-> "none"]

\* the handler named by the request runs
Assemble(h, result) ==
    /\ sqlIn.handler = h /\ ~sqlOut.done
    /\ sqlOut' = result
    /\ UNCHANGED <<sqlIn, core, metaVars, req, rlVars>>

SqlCreateRecord == Assemble("CreateRecord", WriteRecord(sqlIn))
SqlUpdateRecord == Assemble("UpdateRecord", WriteRecord(sqlIn))
SqlListRecords == Assemble("ListRecords", ListRecordsWithOptions(sqlIn))
SqlGetRecord == Assemble("GetRecord", RecordById(sqlIn))
SqlDeleteRecord == Assemble("DeleteRecord", RecordById(sqlIn))
SqlCreateSchema == Assemble("CreateSchema", CreateSchema(sqlIn))
SqlDeleteTable == Assemble("DeleteTable", DeleteTable(sqlIn))

(***************************************************************************)
(* The server.                                                             *)
(***************************************************************************)
\* the metadata store after ConnectMetadataDB on a new file
EmptyStore ==
    /\ databases = {}
    /\ nextDbId = 1
    /\ apiKeys = {}
    /\ nextKey = 1
    /\ req = [r \in Reqs |-> IdleReq]
    /\ issued = {}
    /\ revoked = {}
    /\ users = RegisteredUsers /\ nextUser = 3
    /\ tenant = {}
    /\ files = {}

Init == EmptyStore /\ RLInit /\ SqlIdle

InFlight(op) == Cardinality({r \in Reqs : req[r].op = op /\ req[r].pc # "done"})

\* the model stops starting requests that would insert beyond its bounds
Room(op, maxDbId) ==
    /\ op = "CreateDatabase" => nextDbId + InFlight(op) <= maxDbId
    /\ op = "CreateAPIKey" => nextKey + InFlight(op) <= MaxKeys

\* the names a route takes in its path or body
Names(op, names) == IF op \in {"ListDatabases", "Health"} THEN {NoName} ELSE names

\* a request of the traffic t arrives with one of the headers t.headers and is
\* authenticated: with a token on the routes t.ops, with an API key on the
\* routes t.keyOps
Arrive(r, t) ==
    /\ req[r].pc = "idle"
    /\ \E op \in t.ops \cup t.keyOps :
         /\ Room(op, t.maxDbId)
         /\ \E n \in Names(op, t.names) :
              IF op \in UnroutedOps
              THEN \E tok \in t.tokens : NoRoute(r, tok, op, n)
              ELSE IF op \in AccountOps
              THEN \E tok \in t.tokens : AuthMiddleware(r, tok, op, n)
              ELSE \E h \in t.headers : CombinedAuthMiddleware(r, h, t, op, n)

\* storage.DeleteAPIKey(key): DELETE FROM api_keys WHERE key = ?  (the storage
\* operation itself; no route of this revision calls it)
DeleteAPIKey(k) ==
    /\ \E x \in apiKeys : x.key = k
    /\ \A r \in Reqs : req[r].pc # "done"
    /\ apiKeys' = {x \in apiKeys : x.key # k}
    /\ UNCHANGED <<databases, nextDbId, nextKey, issued, revoked, users, nextUser, tenant, files, req,
                   rlVars, sqlVars>>

\* the databases rows left by a delete of user u if owner_id did not cascade
DatabasesWithoutUserCascade(u) == databases

\* FOREIGN KEY (owner_id) REFERENCES users(user_id) ON DELETE CASCADE, foreign
\* keys on: the databases rows left when the users row u is deleted
DatabasesAfterUserCascade(u) == {d \in databases : d.owner # u}

\* DELETE FROM users WHERE user_id = u, run on the metadata store (no route of
\* this revision deletes a user): the cascades of databases.owner_id,
\* api_keys.api_owner_id and api_keys.api_database_id
DeleteUser(u) ==
    /\ \E x \in users : x.id = u
    /\ \A r \in Reqs : req[r].pc # "done"
    /\ users' = {x \in users : x.id # u}
    /\ databases' = DatabasesAfterUserCascade(u)
    /\ apiKeys' = {k \in apiKeys : k.owner # u /\ k.db \in {d.id : d \in databases'}}
    /\ revoked' = revoked \cup {k.key : k \in apiKeys \ apiKeys'}
    /\ UNCHANGED <<nextDbId, nextKey, issued, nextUser, tenant, files, req, rlVars, sqlVars>>

\* the routes that write the metadata store
WriterOps == {"CreateDatabase", "DeleteDatabase", "CreateAPIKey"}

\* Requests on the metadata store: request 1 is a writer with any token or a
\* health request with any token or key, request 2 a concurrent writer with a
\* valid token.
MetaTraffic ==
    <<[ops |-> WriterOps \cup {"Health"} \cup UnroutedOps, keyOps |-> {"Health"},
       names |-> {appdb, badname}, tokens |-> Tokens, keys |-> 1..MaxKeys,
       maxDbId |-> MaxDbId, headers |-> {BearerHeader, ApiKeyHeader}],
      [ops |-> WriterOps, keyOps |-> {},
       names |-> {appdb}, tokens |-> Users, keys |-> {},
       maxDbId |-> MaxDbId, headers |-> {BearerHeader}]>>

Next ==
    \/ Arrive(1, MetaTraffic[1])
    \/ Arrive(2, MetaTraffic[2])
    \/ \E r \in Reqs :
         \/ CombinedAuthApiKeyFind(r)
         \/ Health(r)
         \/ FindPath(r)
         \/ DeleteRegistration(r)
         \/ RemoveFile(r)
         \/ CreateDatabase(r)
         \/ KeyFindId(r)
         \/ StoreKey(r)
         \/ Finish(r)
    \/ \E k \in 1..MaxKeys : DeleteAPIKey(k)

Spec == Init /\ [][Next]_vars

(***************************************************************************)
(* Properties of the metadata store and the authorizer.                    *)
(***************************************************************************)
\* C5: in every reachable state of the metadata store no databaseId has more
\* than one API key bound to it.
OneKeyPerDatabase ==
    \A k1 \in apiKeys, k2 \in apiKeys : k1.db = k2.db => k1 = k2

\* C5 witness: a database holds a key and a further key creation for it was refused
SecondKeyRefusedWhileKeyStored ==
    \E r \in Reqs, k \in apiKeys :
        /\ req[r].op = "CreateAPIKey" /\ req[r].pc = "done"
        /\ req[r].err = "Conflict" /\ req[r].targetId = k.db

\* a request that the authorizer let through on an API key
AuthorizedByKey(r) ==
    /\ req[r].scheme = "apikey"
    /\ req[r].pc \notin {"idle", "auth2"}
    /\ req[r].userId # ""

\* C6: a request that presents a stored API key is authorized as exactly
\* (userId = owner of the database the key was bound to, dbScope = that
\* database's id), and the owner recorded on a key is the owner of its database.
KeyAuthorizesAsOwnerOfBoundDatabase ==
    /\ \A k \in apiKeys :
          \E d \in databases : d.id = k.db /\ d.owner = k.owner
    /\ \A r \in Reqs :
          AuthorizedByKey(r) =>
              /\ \E i \in issued : i.key = req[r].key
              /\ \A i \in issued :
                    i.key = req[r].key =>
                        req[r].userId = i.dbOwner /\ req[r].dbScope = i.db

\* C6 witness: a request authorized on a key is in its handler while the
\* key's database is registered
KeyRequestInHandler ==
    \E r \in Reqs, d \in databases :
        /\ AuthorizedByKey(r) /\ req[r].pc = "handler"
        /\ d.id = req[r].dbScope /\ d.owner = req[r].userId

\* a request arrives presenting key k
Presents(r, k) ==
    req[r].pc = "idle" /\ req'[r].scheme = "apikey" /\ req'[r].key = k

\* C7: after a database registration is deleted the key that was bound to it
\* is stored no more, and every request that arrives later presenting that
\* key is rejected by the authorizer (401), whatever was registered since.
KeyOfDeletedDatabaseIsDead ==
    /\ [](\A k \in apiKeys : k.key \notin revoked)
    /\ [][\A r \in Reqs, k \in revoked :
              Presents(r, k) => req'[r].pc = "done" /\ req'[r].status = 401]_vars

\* C7 witness: the key's database was deleted, its owner registered the same
\* name again, and a request presenting the key was then turned away
RevokedKeyRefusedAfterReRegistration ==
    \E i \in issued, d \in databases, r \in Reqs :
        /\ i.key \in revoked
        /\ d.owner = i.dbOwner /\ d.name = i.dbName /\ d.id > i.db
        /\ req[r].scheme = "apikey" /\ req[r].key = i.key
        /\ req[r].pc = "done" /\ req[r].status = 401 /\ req[r].op = "Health"

\* C8: creating a key for a database that already has one is answered 409
\* Conflict and leaves the stored keys as they were.
SecondKeyIsConflict ==
    [][\A r \in Reqs :
          (/\ req[r].pc = "storeKey" /\ req'[r].pc = "done"
           /\ \E k \in apiKeys : k.db = req[r].targetId)
          => /\ req'[r].status = 409
             /\ apiKeys' = apiKeys]_vars

\* C8 witness: the refused creation is answered while the first key of the
\* database, issued earlier, is still stored
FirstKeyKeptAfterConflict ==
    \E r \in Reqs, k \in apiKeys, i \in issued :
        /\ req[r].op = "CreateAPIKey" /\ req[r].pc = "done" /\ req[r].status = 409
        /\ k.db = req[r].targetId /\ i.key = k.key /\ i.db = k.db
        /\ k.key < nextKey - 1

\* C9: no two registrations share (owner, name) and no two share a file path.
RegistrationsUnique ==
    \A d1 \in databases, d2 \in databases :
        /\ (d1.owner = d2.owner /\ d1.name = d2.name) => d1 = d2
        /\ d1.path = d2.path => d1 = d2

\* C9 witness: a registration of a name its owner already holds was refused
DuplicateRegistrationRefused ==
    \E r \in Reqs, d \in databases :
        /\ req[r].op = "CreateDatabase" /\ req[r].pc = "done"
        /\ req[r].err = "DatabaseExists"
        /\ d.owner = req[r].userId /\ d.name = req[r].dbName

\* C15: the owning user can rotate a database's key through the HTTP surface:
\* DELETE /api/v1/account/databases/{db_name}/apikey with the owner's Bearer
\* token, answered while the database holds a key, is answered 204 and leaves
\* the database without a key (after which POST on the same path returns 201
\* with a new key and the old key no longer authenticates).
OwnerDeletesKeyOverHttp ==
    [][\A r \in Reqs, d \in databases :
          ( /\ req[r].pc # "done" /\ req'[r].pc = "done"
            /\ req'[r].op = "DeleteAPIKey"
            /\ req'[r].token = d.owner /\ req'[r].dbName = d.name
            /\ FindAPIKeyByDatabaseId(d.id) # {} )
          => /\ req'[r].status = 204
             /\ \A x \in apiKeys' : x.db # d.id]_vars

(***************************************************************************)
(* The data plane.  The store holds two databases of u1, the first with a  *)
(* key; request 1 is any data-plane request, request 2 a concurrent        *)
(* registration or deletion of appdb by either user.                       *)
(***************************************************************************)
PopulatedStore ==
    /\ databases = {[id |-> 1, owner |-> "u1", name |-> appdb,
                     path |-> FilePathOf("u1", appdb)],
                    [id |-> 2, owner |-> "u1", name |-> other,
                     path |-> FilePathOf("u1", other)]}
    /\ nextDbId = 3
    /\ apiKeys = {[owner |-> "u1", db |-> 1, key |-> 1]}
    /\ nextKey = 2
    /\ req = [r \in Reqs |-> IdleReq]
    /\ issued = {[key |-> 1, db |-> 1, dbOwner |-> "u1", dbName |-> appdb]}
    /\ revoked = {}
    /\ users = RegisteredUsers /\ nextUser = 3
    /\ tenant = {}
    /\ files = {d.path : d \in databases}

InitData == PopulatedStore /\ RLInit /\ SqlIdle

DataOps == ScopedOps \cup RecordOps \cup SchemaOps \cup {"DeleteDatabase", "ListDatabases"}

DataTraffic ==
    <<[ops |-> DataOps \cup {"GetAPIKey"}, keyOps |-> DataOps \cup {"CreateDatabase"},
       names |-> {appdb, other, badname}, tokens |-> Tokens, keys |-> {1},
       maxDbId |-> MaxDataDbId, headers |-> {BearerHeader, ApiKeyHeader}],
      [ops |-> {"CreateDatabase", "DeleteDatabase"}, keyOps |-> {},
       names |-> {appdb}, tokens |-> Users, keys |-> {},
       maxDbId |-> MaxDataDbId, headers |-> {BearerHeader}]>>

NextData ==
    \/ Arrive(1, DataTraffic[1])
    \/ Arrive(2, DataTraffic[2])
    \/ \E r \in Reqs :
         \/ CombinedAuthApiKeyFind(r)
         \/ CheckScope(r)
         \/ ScopedFindPath(r)
         \/ FindPath(r)
         \/ Open(r)
         \/ Exec(r)
         \/ DeleteRegistration(r)
         \/ RemoveFile(r)
         \/ CreateDatabase(r)
         \/ ListQuery(r)
         \/ ListOpen(r)
         \/ ListScan(r)
         \/ GetAPIKey(r)
         \/ GetAPIKeyFind(r)
         \/ Finish(r)

SpecData == InitData /\ [][NextData]_vars

\* the handler of request r resolves the database its path names, and that
\* database is not the one the request's key is bound to
ResolvesOutOfScope(r) ==
    /\ AuthorizedByKey(r)
    /\ req[r].pc = "handler" /\ req[r].op \in DbPathOps
    /\ IsValidIdentifier(req[r].dbName)
    /\ FindDatabaseIDByNameAndUser(req[r].userId, req[r].dbName) # {}
    /\ req[r].dbScope \notin FindDatabaseIDByNameAndUser(req[r].userId, req[r].dbName)
    /\ req'[r] # req[r]

\* C1: for every request authenticated with an ApiKey, every data-plane
\* operation naming a database in its path whose target database, resolved
\* from (userId, db_name), is not the database the key is bound to fails with
\* Forbidden.
OutOfScopeIsForbidden ==
    [][\A r \in Reqs :
          ResolvesOutOfScope(r) =>
              req'[r].pc = "done" /\ req'[r].err = "Forbidden"]_vars

\* C2: every tenant store file opened while serving a request is the file of
\* a registration owned by the request's authenticated userId: each stored
\* path is the path of its row's owner and name, and an open handle is on a
\* path of the request's user.
OpensOnlyOwnFiles ==
    /\ \A d \in databases : d.path = FilePathOf(d.owner, d.name)
    /\ \A r \in Reqs :
          req[r].handle = "open" =>
              /\ req[r].userId \in Users
              /\ \E n \in {appdb, other} : req[r].path = FilePathOf(req[r].userId, n)

\* C2 witness: a user holds a database file open while another user has a
\* registration of the same name
OpenBesideSameNameOfOtherUser ==
    \E r \in Reqs, d \in databases :
        /\ req[r].handle = "open" /\ req[r].pc = "exec"
        /\ d.name = req[r].dbName /\ d.owner # req[r].userId

\* C10: every tenant-store handle opened while serving a request is released
\* before the request completes, on every exit path, and no release or use is
\* attempted on a handle whose open failed.
HandlesReleasedAndFailedOpenUnused ==
    \A r \in Reqs :
        /\ req[r].pc = "done" => req[r].handle # "open"
        /\ ~req[r].nilUse

\* C11: when a request authenticated with an ApiKey is refused because its
\* target database is not the database of the key, no tenant store file has
\* been opened, read or written for it: the refusal is decided on the
\* metadata store alone, the request holds no file path and no handle (open,
\* closed or failed), and the step that refuses it changes no stored data.
ScopeRefusalTouchesNoFile ==
    /\ [](\A r \in Reqs :
            req[r].err = "Forbidden" =>
                /\ req[r].handle = "none" /\ req[r].path = NoPath
                /\ req[r].rows = {} /\ ~req[r].nilUse)
    /\ [][\A r \in Reqs :
            req'[r].err = "Forbidden" /\ req[r].err # "Forbidden" =>
                /\ req[r].handle = "none" /\ req[r].path = NoPath
                /\ UNCHANGED metaVars]_vars

\* C11 witness: a request with the key of appdb for a table route of `other`
\* has been refused
KeyRefusedForOtherDatabase ==
    \E r \in Reqs :
        /\ req[r].pc = "done" /\ req[r].err = "Forbidden"
        /\ req[r].scheme = "apikey" /\ req[r].op \in ScopedOps
        /\ req[r].dbName = other /\ req[r].dbScope = 1 /\ req[r].targetId = 2

\* C12: if a user owns databases appdb and other and API key K is bound to
\* appdb, then GET /api/v1/databases/other/tables with Authorization: ApiKey K
\* is answered with HTTP status 403.
ScopeMismatchAnswered403 ==
    \A r \in Reqs :
        ( /\ req[r].pc = "done" /\ req[r].op = "ListTables"
          /\ req[r].scheme = "apikey" /\ req[r].key = 1 /\ req[r].dbScope = 1
          /\ req[r].dbName = other /\ req[r].targetId = 2 )
        => req[r].status = 403

\* C13: registering, listing and deleting databases is permitted only under
\* user-scoped authorization: a request authenticated with a database-scoped
\* ApiKey is never answered with success on one of these routes, and no step
\* of such a request changes the registrations.
KeyCannotManageDatabases ==
    /\ [](\A r \in Reqs :
            ( /\ AuthorizedByKey(r) /\ req[r].pc = "done"
              /\ req[r].op \in {"CreateDatabase", "ListDatabases", "DeleteDatabase"} )
                => req[r].status \notin {200, 201, 204})
    /\ [][\A r \in Reqs :
            ( /\ AuthorizedByKey(r) /\ req'[r] # req[r]
              /\ req[r].op \in {"CreateDatabase", "ListDatabases", "DeleteDatabase"} )
                => databases' = databases]_vars

\* C14: an API key's full value is disclosed to a caller exactly once, in the
\* response to the request that created it: a response that carries a key
\* value is the 201 of CreateAPIKey carrying the key it has just stored, and
\* no later response (key read, database listing, any other route) carries one.
KeyShownOnlyByItsCreation ==
    \A r \in Reqs :
        req[r].pc = "done" /\ req[r].shown # {} =>
            /\ req[r].op = "CreateAPIKey" /\ req[r].status = 201
            /\ req[r].shown = {req[r].key}

(***************************************************************************)
(* The authorizer of the /api/v1 group under every form of the             *)
(* Authorization header, on the populated store.                           *)
(***************************************************************************)
AuthTraffic ==
    LET headers == {NoHeader} \cup AcceptedHeaders \cup UnsplitHeaders
                       \cup OtherSchemeHeaders
    IN <<[ops |-> {"Health", "ListTables"}, keyOps |-> {"Health", "ListTables"},
          names |-> {appdb, other}, tokens |-> Tokens, keys |-> 1..MaxKeys,
          maxDbId |-> MaxDataDbId, headers |-> headers],
         [ops |-> {"Health"}, keyOps |-> {"Health"}, names |-> {appdb},
          tokens |-> Users, keys |-> {1}, maxDbId |-> MaxDataDbId,
          headers |-> headers]>>

NextAuth ==
    \/ Arrive(1, AuthTraffic[1])
    \/ Arrive(2, AuthTraffic[2])
    \/ \E r \in Reqs :
         \/ CombinedAuthApiKeyFind(r)
         \/ Health(r)
         \/ CheckScope(r)
         \/ ScopedFindPath(r)
         \/ Open(r)
         \/ Exec(r)
         \/ Finish(r)

SpecAuth == InitData /\ [][NextAuth]_vars

\* request r is answered 401 with this error kind and has run no handler
RejectedAs(rec, kind) ==
    /\ rec.pc = "done" /\ rec.err = kind /\ rec.status = 401
    /\ rec.userId = "" /\ rec.handle = "none" /\ rec.path = NoPath

\* C16: the request authorizer rejects, without invoking any downstream
\* handler: a request with no Authorization header as Unauthorized; a header
\* that does not split into scheme and credentials as TokenMalformed; a scheme
\* other than Bearer or ApiKey as TokenMalformed, the scheme being compared
\* case-insensitively (every spelling of Bearer and ApiKey is taken to its
\* case); each rejection is answered with HTTP 401 in the step of the arrival
\* and changes no stored data.
AuthorizerRejectsBadHeaders ==
    [][\A r \in Reqs :
          ( /\ req[r].pc = "idle" /\ req'[r].pc # "idle"
            /\ req'[r].op \notin AccountOps \cup UnroutedOps ) =>
              LET h == req'[r].header
              IN /\ h = NoHeader => RejectedAs(req'[r], "Unauthorized")
                 /\ h \in UnsplitHeaders => RejectedAs(req'[r], "TokenMalformed")
                 /\ h \in OtherSchemeHeaders => RejectedAs(req'[r], "TokenMalformed")
                 /\ h \in AcceptedHeaders => req'[r].scheme \in {"bearer", "apikey"}
                 /\ h \notin AcceptedHeaders => UNCHANGED metaVars]_vars

\* C16 witness: a request with a scheme other than Bearer or ApiKey has been
\* answered 401 TokenMalformed by the error classifier
OtherSchemeRejected ==
    \E r \in Reqs :
        /\ req[r].header \in OtherSchemeHeaders /\ req[r].op = "ListTables"
        /\ RejectedAs(req[r], "TokenMalformed")

(***************************************************************************)
(* The error classifier alone: a handler has returned with an error        *)
(* attached to the request, and with or without a response written.        *)
(***************************************************************************)
\* the error values of internal/storage and internal/auth, and the binding
\* failures of the validator
ErrKinds ==
    {"UserNotFound", "DatabaseNotFound", "RecordNotFound", "TableNotFound",
     "APIKeyNotFound", "InvalidCredentials", "EmailExists", "DatabaseExists",
     "ConstraintViolation", "Conflict", "APIKeyGeneration",
     "TokenMalformed", "TokenInvalid", "TokenClaimsInvalid", "TokenExpired",
     "UnexpectedSigningMethod", "ValidationErrors",
     "ColumnNotFound", "TypeMismatch", "InvalidFilterValue",
     "InvalidSortColumn", "InvalidFieldColumn",
     "BadRequest", "Unauthorized", "Forbidden", "InternalServer"}

InitErr ==
    /\ databases = {} /\ nextDbId = 1 /\ apiKeys = {} /\ nextKey = 1
    /\ issued = {} /\ revoked = {}
    /\ users = RegisteredUsers /\ nextUser = 3
    /\ tenant = {} /\ files = {}
    /\ RLInit /\ SqlIdle
    /\ \E kind \in ErrKinds, written \in {0, 400, 401, 404, 409, 500} :
          req = [r \in Reqs |->
                   IF r = 1
                   THEN [IdleReq EXCEPT !.pc = "attached", !.op = "Health",
                                        !.err = kind, !.status = written]
                   ELSE IdleReq]

\* ErrorHandler after c.Next(): the last attached error is classified, and
\* answered unless the response is already written
Classify(r) ==
    /\ req[r].pc = "attached"
    /\ Step(r, Respond(req[r], req[r].err, req[r].status))
    /\ UNCHANGED metaVars

NextErr == \E r \in Reqs : Classify(r) \/ Finish(r)

SpecErr == InitErr /\ [][NextErr]_vars

\* C17: for every error kind attached to a request whose response has not yet
\* been written, the error classifier answers with the status of the mapping
\* table: the NotFound kinds including ApiKeyNotFound give 404; Conflict,
\* EmailExists, DatabaseExists and ConstraintViolation give 409; BadRequest,
\* InvalidSortColumn, InvalidFieldColumn, InvalidFilterValue, ColumnNotFound,
\* TypeMismatch and binding failures give 400.
ClassifierFollowsMappingTable ==
    [][\A r \in Reqs :
          req[r].pc = "attached" /\ req[r].status = 0 /\ req'[r].pc = "done" =>
              LET kind == req[r].err
              IN /\ kind \in {"UserNotFound", "DatabaseNotFound", "RecordNotFound",
                               "TableNotFound", "APIKeyNotFound"}
                        => req'[r].status = 404
                 /\ kind \in {"Conflict", "EmailExists", "DatabaseExists",
                               "ConstraintViolation"}
                        => req'[r].status = 409
                 /\ kind \in {"BadRequest", "InvalidSortColumn", "InvalidFieldColumn",
                               "InvalidFilterValue", "ColumnNotFound", "TypeMismatch",
                               "ValidationErrors"}
                        => req'[r].status = 400]_vars

(***************************************************************************)
(* Signup and login on a users table that starts empty.                    *)
(***************************************************************************)
InitUsers ==
    /\ databases = {} /\ nextDbId = 1 /\ apiKeys = {} /\ nextKey = 1
    /\ issued = {} /\ revoked = {}
    /\ users = {} /\ nextUser = 1
    /\ tenant = {} /\ files = {}
    /\ req = [r \in Reqs |-> IdleReq]
    /\ RLInit /\ SqlIdle

NextUsers ==
    \E r \in Reqs :
        \/ \E e \in Emails, p \in Passwords : Signup(r, e, p)
        \/ CreateUser(r)
        \/ \E e \in Emails \cup {NoName}, p \in Passwords : Login(r, e, p)
        \/ FindUserByEmail(r)
        \/ \E tok \in Users, id \in {Uuid(n) : n \in 1..3} : FindUser(r, tok, id)
        \/ Finish(r)

SpecUsers == InitUsers /\ [][NextUsers]_vars

\* C18: POST /auth/login returns 401 both when no user is registered with the
\* given email and when the password does not match the stored hash; in
\* neither case is a token issued.
LoginRefusedWith401 ==
    [][\A r \in Reqs :
          ( /\ req[r].pc = "findUser" /\ req'[r].pc = "done"
            /\ \/ \A u \in users : u.email # req[r].email
               \/ \E u \in users : /\ u.email = req[r].email
                                    /\ u.hash # HashPassword(req[r].password) )
          => req'[r].status = 401 /\ req'[r].jwt = ""]_vars

\* C19: a signup whose email is already registered is answered with 409 and
\* creates no second user; the already registered user's stored data is
\* unchanged, so at most one user exists per email.
DuplicateEmailRefused ==
    /\ [](\A u, v \in users : u.email = v.email => u = v)
    /\ [][\A r \in Reqs :
            ( /\ req[r].pc = "createUser" /\ req'[r].pc = "done"
              /\ \E u \in users : u.email = req[r].email )
            => /\ req'[r].status = 409 /\ req'[r].err = "EmailExists"
               /\ users' = users]_vars

\* C19 witness: a signup with a registered email and another password has
\* been answered 409, and the stored hash is still that of the first password
SecondSignupRefused ==
    \E r \in Reqs, u \in users :
        /\ req[r].pc = "done" /\ req[r].op = "Signup" /\ req[r].status = 409
        /\ u.email = req[r].email
        /\ u.hash # HashPassword(req[r].password)
        /\ Cardinality(users) = 1

(***************************************************************************)
(* The tables of one tenant file: u1 creates and drops tables and inserts  *)
(* records in appdb, two requests at a time.                               *)
(***************************************************************************)
TableNames == {items, <<"I","t","e","m","s">>, ghost}
Schemas == {{title}, {title, <<"b","o","d","y">>}}

TenantTraffic ==
    [ops |-> {"CreateSchema", "DeleteTable", "CreateRecord"}, keyOps |-> {}, names |-> {appdb}, tokens |-> {"u1"},
     keys |-> {}, maxDbId |-> MaxDataDbId, headers |-> {BearerHeader}]

NextTenant ==
    \E r \in Reqs :
        \/ Arrive(r, TenantTraffic)
        \/ FindPath(r)
        \/ CheckScope(r)
        \/ ScopedFindPath(r)
        \/ Open(r)
        \/ \E t \in TableNames :
              \/ \E cols \in Schemas : CreateTable(r, t, cols)
              \/ DropTable(r, t)
              \/ InsertRecord(r, t)
        \/ Finish(r)

SpecTenant == InitData /\ [][NextTenant]_vars

\* C20: creating a table that already exists and dropping a table that does
\* not exist both report success (201 and 204 respectively) and leave the
\* tenant store's tables, schemas and records unchanged.
CreateExistingAndDropMissingChangeNothing ==
    [][\A r \in Reqs :
          req[r].pc = "exec" /\ req'[r].pc = "done" =>
              /\ (req[r].op = "CreateSchema" /\ TableNamed(req'[r].table) # {})
                    => req'[r].status = 201 /\ tenant' = tenant
              /\ (req[r].op = "DeleteTable" /\ TableNamed(req'[r].table) = {})
                    => req'[r].status = 204 /\ tenant' = tenant]_vars

\* C20 witness: a creation of `Items` has been answered 201 while the store
\* holds the table `items` with records, which that request cannot have made
CreatedOverExistingTable ==
    \E r \in Reqs, x \in tenant :
        /\ req[r].pc = "done" /\ req[r].op = "CreateSchema" /\ req[r].status = 201
        /\ req[r].table = <<"I","t","e","m","s">> /\ x.name = items /\ x.rows # {}

(***************************************************************************)
(* The rate limiter alone.                                                 *)
(***************************************************************************)
InitRL == EmptyStore /\ RLInit /\ SqlIdle

NextRL ==
    \/ \E c \in Callers :
         \/ \E ip \in IPs : Lock(c, ip)
         \/ Filter(c)
         \/ Decide(c)
         \/ RateLimitMiddleware(c)
    \/ Tick

SpecRL == InitRL /\ [][NextRL]_vars

InitSql ==
    /\ EmptyStore /\ RLInit
    /\ sqlIn \in {in \in SqlInputs : SqlReads(in)}
    /\ sqlOut = NotRun /\ core = [fn |-> "none"]

NextSql ==
    \/ SqlCreateRecord
    \/ SqlUpdateRecord
    \/ SqlListRecords
    \/ SqlGetRecord
    \/ SqlDeleteRecord
    \/ SqlCreateSchema
    \/ SqlDeleteTable

SpecSql == InitSql /\ [][NextSql]_vars

\* the identifiers of a request in positions the handler writes into SQL
SqlPositions(in) ==
    {in.dbName, in.tableName} \cup in.keys \cup in.fields
        \cup (IF in.sort = NoName THEN {} ELSE {in.sort})

\* C3: every identifier interpolated into an SQL statement has passed
\* IsValidIdentifier, and a request carrying an identifier that fails
\* validation in such a position is rejected by the handler.
InterpolatedValidAndInvalidRejected ==
    sqlOut.done =>
        /\ \A n \in sqlOut.interpolated : IsValidIdentifier(n)
        /\ (\E n \in SqlPositions(sqlIn) : ~IsValidIdentifier(n)) => sqlOut.rejected

(***************************************************************************)
(* Deleting a database: the registration and the tenant file.  Both users  *)
(* delete and register the two databases of the populated store, the       *)
(* requests race with each other, and os.Remove can fail.                  *)
(***************************************************************************)
NextDelete ==
    \E r \in Reqs :
        \/ Arrive(r, [ops |-> {"DeleteDatabase", "CreateDatabase"}, keyOps |-> {},
                      names |-> {appdb, other}, tokens |-> Users, keys |-> {},
                      maxDbId |-> MaxDataDbId, headers |-> {BearerHeader}])
        \/ FindPath(r)
        \/ DeleteRegistration(r)
        \/ RemoveFile(r)
        \/ RemoveFileFails(r)
        \/ CreateDatabase(r)
        \/ Finish(r)

SpecDelete == InitData /\ [][NextDelete]_vars

\* C21: a DELETE of a database registered to the caller removes the
\* registration, and once this request has removed it the request is
\* answered 204 whatever os.Remove returns (file removed, file absent,
\* removal failed): a file-removal failure never fails the request.
RemoveFailureNeverFailsDelete ==
    [][\A r \in Reqs :
          /\ ( req[r].pc = "delReg" /\ req'[r].pc = "rmFile" )
                => \A d \in databases' :
                      ~(d.owner = req[r].userId /\ d.name = req[r].dbName)
          /\ ( req[r].pc = "rmFile" /\ req[r].err = "" /\ req'[r] # req[r] )
                => /\ req'[r].pc = "done" /\ req'[r].status = 204
                   /\ req'[r].removed \in {"removed", "absent", "failed"}]_vars

\* C21 witness: a deletion whose os.Remove failed has been answered 204, and
\* the file is still on disk
DeletedWithFileLeftBehind ==
    \E r \in Reqs :
        /\ req[r].pc = "done" /\ req[r].op = "DeleteDatabase"
        /\ req[r].removed = "failed" /\ req[r].status = 204
        /\ FilePathOf(req[r].userId, req[r].dbName) \in files
        /\ FindDatabasePath(req[r].userId, req[r].dbName) = {}

\* C27: the tenant file of a currently registered database is never removed,
\* also when a registration of the same name by the same user comes between
\* the metadata delete and the file removal.
RegisteredFileNeverRemoved ==
    [][\A p \in files \ files' : \A d \in databases' : d.path # p]_vars

\* C28: a DELETE that found the path but whose registration delete matched no
\* row (a concurrent DELETE of the same database came first) is answered 204.
LostDeleteRaceAnswered204 ==
    \A r \in Reqs :
        ( /\ req[r].pc = "done" /\ req[r].op = "DeleteDatabase"
          /\ req[r].removed # "" /\ req[r].err = "DatabaseNotFound" )
        => req[r].status = 204

(***************************************************************************)
(* The id key in the body of a record write (checked under SpecSql).       *)
(***************************************************************************)
\* C22: on record INSERT and UPDATE an `id` key of the body (in any case of
\* letters) is dropped, not rejected: the handler does with the request what
\* it does with the same request without its id keys, and no id key is among
\* the columns the statement sets, so the body never sets or changes the id.
IdKeyDroppedNotRejected ==
    ( sqlOut.done /\ sqlIn.handler \in {"CreateRecord", "UpdateRecord"} ) =>
        /\ \A n \in sqlOut.interpolated \ {sqlIn.tableName} : ToLower(n) # idcol
        /\ sqlOut = WriteRecord([sqlIn EXCEPT
                        !.keys = {k \in sqlIn.keys : ToLower(k) # idcol}])

\* C22 witness: an UPDATE whose body carries ID and title has run with the
\* column title alone
UpdateRanWithoutItsIdKey ==
    /\ sqlOut.done /\ ~sqlOut.rejected /\ sqlIn.handler = "UpdateRecord"
    /\ sqlIn.keys = {IDcol, title}
    /\ sqlOut.interpolated = {sqlIn.tableName, title}

(***************************************************************************)
(* GET /ping behind the rate limiter (checked under SpecRL): the route's   *)
(* handler answers 200 when RateLimitMiddleware calls c.Next(), and the    *)
(* middleware answers 429 when Allow returns false.                        *)
(***************************************************************************)
\* C23: starting with no history, of the requests of one IP the limiter lets
\* the first `limit` (5) through to the handler (200), and it refuses (429)
\* the next one when all `limit` accepted requests lie within the window
\* before it.
FirstFivePassSixthRefused ==
    [][\A c \in Callers :
          ( call[c].pc = "check" /\ call'[c].pc = "returned" ) =>
              LET ip == call[c].ip
                  total == AcceptedIn(ip, 0, MaxTime)
                  recent == AcceptedIn(ip, call[c].now - window + 1, MaxTime)
              IN /\ total < limit => call'[c].allowed
                 /\ ( total = limit /\ recent = limit ) => ~call'[c].allowed]_vars

\* C23 witness: the sixth request of an IP, within the window of the first
\* five, has been refused
SixthPingRefused ==
    \E c \in Callers :
        /\ call[c].pc = "returned" /\ ~call[c].allowed
        /\ Len(requests[call[c].ip]) = limit
        /\ AcceptedIn(call[c].ip, 0, MaxTime) = limit
        /\ \A i \in 1..limit : requests[call[c].ip][i] > call[c].now - window

(***************************************************************************)
(* Deleting a user row.  Both users register a database and create its     *)
(* key, and user rows are deleted on the store while they do.              *)
(***************************************************************************)
NextCascade ==
    \/ \E r \in Reqs :
         \/ Arrive(r, [ops |-> {"CreateDatabase", "CreateAPIKey"}, keyOps |-> {},
                       names |-> {appdb}, tokens |-> Users, keys |-> {},
                       maxDbId |-> MaxDbId, headers |-> {BearerHeader}])
         \/ CreateDatabase(r)
         \/ KeyFindId(r)
         \/ StoreKey(r)
         \/ Finish(r)
    \/ \E u \in Users : DeleteUser(u)

SpecCascade == Init /\ [][NextCascade]_vars

\* C24: deleting a user removes every database registration and every API
\* key owned by that user, and no registration or key of any other user; no
\* row is left that refers to a missing user or database.
UserDeleteCascadesToOwnRowsOnly ==
    /\ [][\A u \in Users :
            ( (\E x \in users : x.id = u) /\ ~(\E x \in users' : x.id = u) ) =>
                /\ \A d \in databases' : d.owner # u
                /\ \A k \in apiKeys' : k.owner # u
                /\ \A d \in databases : d.owner # u => d \in databases'
                /\ \A k \in apiKeys : k.owner # u => k \in apiKeys']_vars
    /\ [](/\ \A d \in databases : \E x \in users : x.id = d.owner
          /\ \A k \in apiKeys : /\ \E x \in users : x.id = k.owner
                                /\ \E d \in databases : d.id = k.db)

\* C24 witness: u1, who had a database with a key, has been deleted, and the
\* database and the key of u2 are still stored
OtherUsersRowsSurvive ==
    /\ ~(\E x \in users : x.id = "u1")
    /\ \E i \in issued : i.dbOwner = "u1" /\ i.key \in revoked
    /\ \E d \in databases : d.owner = "u2"
    /\ \E k \in apiKeys : k.owner = "u2"

(***************************************************************************)
(* The functions of package core, each applied to one input.               *)
(***************************************************************************)
MaxNameLen == 3     \* length of the names drawn from all characters

\* the inputs: every name of up to MaxNameLen characters over letters, a
\* digit, the underscore and characters outside the pattern; names of
\* MaxIdentLen - 1 .. MaxIdentLen + 2 characters; every spelling of the
\* allowed types in upper and lower case, alone and with another character
\* before or after; other type names
CoreInputs ==
    LET chars == {"a", "Z", "7", "_", " ", "-", "$", "/", "e-acute"}
        short == UNION {[1..n -> chars] : n \in 0..MaxNameLen}
        long == {[i \in 1..n |-> IF i = k THEN c ELSE "a"] :
                    n \in (MaxIdentLen - 1)..(MaxIdentLen + 2),
                    k \in {1, MaxIdentLen}, c \in {"a", "7", "$"}}
        spelt == UNION {{[i \in 1..Len(T) |-> IF b[i] = 1 THEN T[i] ELSE ToLower(T)[i]] :
                            b \in [1..Len(T) -> {0, 1}]} : T \in AllowedColumnTypes}
        types == spelt \cup {t \o <<c>> : t \in spelt, c \in {"$", " "}}
                       \cup {<<" ">> \o t : t \in spelt}
                       \cup {<< >>, <<"V","A","R","C","H","A","R">>, <<"v","a","r","c","h","a","r">>,
                             <<"i-dotless","n","t","e","g","e","r">>, <<"I","N","T">>}
    IN {[fn |-> "IsValidIdentifier", input |-> x] : x \in short \cup long}
          \cup {[fn |-> "NormalizeAndValidateType", input |-> x] : x \in types}

InitCore ==
    /\ EmptyStore /\ RLInit
    /\ sqlIn = NoSql /\ sqlOut = NotRun
    /\ \E in \in CoreInputs : core = [fn |-> in.fn, input |-> in.input, done |-> FALSE]

\* a call of core.IsValidIdentifier
ApplyIsValidIdentifier ==
    /\ core.fn = "IsValidIdentifier" /\ ~core.done
    /\ core' = [fn |-> core.fn, input |-> core.input, done |-> TRUE,
                valid |-> IsValidIdentifier(core.input)]
    /\ UNCHANGED <<metaVars, req, rlVars, sqlIn, sqlOut>>

\* a call of core.NormalizeAndValidateType
ApplyNormalizeAndValidateType ==
    /\ core.fn = "NormalizeAndValidateType" /\ ~core.done
    /\ core' = [fn |-> core.fn, input |-> core.input, done |-> TRUE,
                result |-> NormalizeAndValidateType(core.input)]
    /\ UNCHANGED <<metaVars, req, rlVars, sqlIn, sqlOut>>

NextCore == ApplyIsValidIdentifier \/ ApplyNormalizeAndValidateType

SpecCore == InitCore /\ [][NextCore]_vars

\* C25: IsValidIdentifier(s) is true exactly when s has 1 to 64 characters,
\* each an ASCII letter, a digit or the underscore; a digit may come first.
ValidIffAsciiWordOfLength1To64 ==
    ( core.fn = "IsValidIdentifier" /\ core.done ) =>
        ( core.valid <=>
            /\ Len(core.input) >= 1 /\ Len(core.input) <= 64
            /\ \A i \in 1..Len(core.input) :
                  \/ core.input[i] \in {LowerSeq[j] : j \in 1..26}
                  \/ core.input[i] \in {UpperSeq[j] : j \in 1..26}
                  \/ core.input[i] \in {"0","1","2","3","4","5","6","7","8","9"}
                  \/ core.input[i] = "_" )

\* C25 witness: a name that begins with a digit has been found valid
LeadingDigitFoundValid ==
    /\ core.fn = "IsValidIdentifier" /\ core.done /\ core.valid
    /\ Len(core.input) = MaxNameLen /\ core.input[1] = "7" /\ core.input[2] = "_"

\* C26: NormalizeAndValidateType(s) succeeds exactly when the upper-cased s is
\* one of TEXT, INTEGER, REAL, BLOB, BOOLEAN, and then returns that upper-case
\* form; otherwise (VARCHAR, the empty string, TEXT$) it fails and returns
\* the empty type.
TypeAcceptedIffUpperCasedAllowed ==
    ( core.fn = "NormalizeAndValidateType" /\ core.done ) =>
        LET up == ToUpper(core.input)
            known == up \in {<<"T","E","X","T">>, <<"I","N","T","E","G","E","R">>,
                             <<"R","E","A","L">>, <<"B","L","O","B">>,
                             <<"B","O","O","L","E","A","N">>}
        IN /\ core.result.ok <=> known
           /\ core.result.type = IF known THEN up ELSE << >>
           /\ core.input \in {<<"V","A","R","C","H","A","R">>, << >>,
                              <<"T","E","X","T","$">>} => ~core.result.ok

\* C26 witness: a type written in mixed case has been normalised to TEXT
MixedCaseNormalised ==
    /\ core.fn = "NormalizeAndValidateType" /\ core.done
    /\ core.input = <<"T","e","X","t">>
    /\ core.result = [type |-> <<"T","E","X","T">>, ok |-> TRUE]

(***************************************************************************)
(* The authorizer on a metadata store that can fail: health requests with  *)
(* a token or a key, and key lookups that the store answers with an error. *)
(***************************************************************************)
NextFaults ==
    \E r \in Reqs :
        \/ Arrive(r, [ops |-> {"Health"}, keyOps |-> {"Health"}, names |-> {appdb},
                      tokens |-> Tokens, keys |-> 1..MaxKeys, maxDbId |-> MaxDataDbId,
                      headers |-> {NoHeader, BearerHeader, ApiKeyHeader}])
        \/ \E k \in 1..MaxKeys : CombinedAuthApiKeyScanError(r, k, "Health", NoName)
        \/ CombinedAuthApiKeyFind(r)
        \/ Health(r)
        \/ Finish(r)

SpecFaults == InitData /\ [][NextFaults]_vars

\* C29: no request terminates the server process: every failure met while
\* authenticating, a metadata-store error during the API-key lookup included,
\* ends in an HTTP error response for that request only.
NoRequestEndsTheProcess ==
    \A r \in Reqs : req[r].pc # "exited"

(***************************************************************************)
(* What the responses of login and of the user route carry (checked under  *)
(* SpecUsers).                                                             *)
(***************************************************************************)
\* C30: no HTTP response contains a user's password hash: neither the user
\* object of the login response nor the answer of GET /api/v1/user/{user_id},
\* to the user or to any other authenticated caller.
NoResponseCarriesPasswordHash ==
    \A r \in Reqs :
        req[r].pc = "done" =>
            \A b \in req[r].body : \A u \in users : b.password # u.hash

====
